---- MODULE Spec2Model ----
(***************************************************************************)
(* A model of the example functions of rust-bible.  Each example function  *)
(* is a straight-line (or looping) Rust program; the model executes one    *)
(* function per behaviour, one statement per step, and tracks the state    *)
(* the Rust semantics attach to it: validity of every variable and field,  *)
(* heap allocations and their drops, the references that are alive, the    *)
(* closures that were invoked, program output and panics.                  *)
(***************************************************************************)
EXTENDS Integers, Sequences, FiniteSets, TLC

VARIABLES
  prog,      \* the function being executed
  pc,        \* index of the next instruction (interpreted functions) or source line
  status,    \* "running", "done" or "panicked"
  st,        \* validity of every variable / field: "unborn", "valid", "moved", "dead"
  val,       \* value of a variable / field: its heap cell (String, Box), its
             \* literal (scalars, arrays), its range (slice references)
  heap,      \* sequence of heap allocations [data, frees]
  dropLog,   \* sequence of [var, data]: which owner dropped which allocation
  badUse,    \* places that were read, moved or borrowed while not valid
  borrows,   \* references that are alive: [ref, kind, target]
  acc,       \* accesses made by the last executed instruction: [place, how, via]
  out,       \* program output: sequence of [line, args], one per print
  returned,  \* the Option returned by the last call of Fibonacci::next
  calls,     \* number of calls of Fibonacci::next that returned
  overflow_checks,  \* build profile: TRUE (debug) panics on integer overflow,
                    \* FALSE (release) wraps
  stdin,     \* the line waiting on standard input
  invoked    \* number of invocations of each closure and counted method, by
             \* source line

-----------------------------------------------------------------------------
(* Types of the variables declared by the example functions.               *)

\* `ret0` is the return place (MIR _0) of a called function.
VarType ==
  [ s |-> "String", s1 |-> "String", s2 |-> "String", s3 |-> "String",
    some_string |-> "String", a_string |-> "String", ret0 |-> "String",
    x |-> "i32", some_integer |-> "i32",
    moveable_user |-> "UserMove", moved_user |-> "UserMove",
    moved_user_2 |-> "UserMove", copied_user2 |-> "UserMove",
    moved_username |-> "String", cloned_username |-> "String",
    copied_active |-> "bool",
    person |-> "Person", first_name |-> "&String", last_name |-> "String",
    age |-> "u8", id |-> "Box",
    immut_ref_s1 |-> "&String", immut_ref_s2 |-> "&String",
    immut_ref_s |-> "&String", mut_ref_s |-> "&mut String",
    ref1 |-> "&mut String", ref2 |-> "&mut String",
    xs |-> "[i32; 5]", r1 |-> "&mut [i32]", r2 |-> "&mut [i32]",
    self |-> "Fibonacci",
    count |-> "i32", remaining |-> "i32", number |-> "i32",
    arr |-> "[i32; 5]", element |-> "i32", into_iter |-> "usize",
    arr_2 |-> "i32", vec |-> "Vec", empty_vec |-> "Vec", third_element |-> "i32",
    index |-> "String", index_2 |-> "usize",
    str_version |-> "&str", str_version_2 |-> "&str", str_version_3 |-> "&str",
    string_version |-> "String", string_version_2 |-> "String",
    string_version_3 |-> "String", first_char |-> "&str",
    list |-> "&[T]", list_2 |-> "&[T]", largest |-> "&T", item |-> "&T",
    ret_ref |-> "&T", ret_sugar |-> "&T",
    user1 |-> "User", self_2 |-> "&User", self_3 |-> "&User",
    owned_string |-> "String", borrowed_string |-> "&str",
    s_2 |-> "String", v_2 |-> "Vec",
    v |-> "Vec", v_iter |-> "Iterator", tmp |-> "Iterator",
    v_iter_map |-> "Iterator", v_filter_map_iter |-> "Iterator",
    v_refs |-> "Vec" ]

\* x is an i32 in ownership_in_function_calls and a bool in control_flow.

Fibonacci == [ curr |-> "u32", next |-> "u32" ]

UserMove ==
  [ active |-> "bool", sign_in_count |-> "u64",
    username |-> "String", email |-> "String" ]

User == [ active |-> "bool", sign_in_count |-> "u64", username |-> "String" ]

Person ==
  [ first_name |-> "String", last_name |-> "String",
    age |-> "u8", id |-> "Box" ]

StructFields ==
  [ UserMove |-> UserMove, Person |-> Person, Fibonacci |-> Fibonacci,
    User |-> User ]

\* Types that implement Copy: assignment copies instead of moving.
CopyTypes ==
  {"i32", "u8", "u32", "u64", "usize", "bool", "&String", "&str", "[i32; 5]",
   "&[T]", "&T", "&User"}

\* Types whose values manage a heap allocation.
HeapTypes == {"String", "Box", "Vec"}

TypeOf(p) ==
  IF Len(p) = 1 THEN VarType[p[1]]
  ELSE StructFields[VarType[p[1]]][p[2]]

IsStruct(p) == TypeOf(p) \in DOMAIN StructFields

\* The leaf places (move paths) of a place: the fields of a struct, or the
\* place itself.
Suffixes(p) ==
  IF IsStruct(p) THEN {<<f>> : f \in DOMAIN StructFields[TypeOf(p)]}
  ELSE {<< >>}

Leaves(p) == {p \o sfx : sfx \in Suffixes(p)}

\* The fields of the structs in declaration order: the order they are dropped in.
FieldOrder ==
  [ UserMove |-> <<"active", "sign_in_count", "username", "email">>,
    Person |-> <<"first_name", "last_name", "age", "id">>,
    Fibonacci |-> <<"curr", "next">>,
    User |-> <<"active", "sign_in_count", "username">> ]

LeavesSeq(p) ==
  IF IsStruct(p)
  THEN [k \in 1..Len(FieldOrder[TypeOf(p)]) |-> p \o <<FieldOrder[TypeOf(p)][k]>>]
  ELSE <<p>>

AllLeaves == UNION {Leaves(<<v>>) : v \in DOMAIN VarType}

-----------------------------------------------------------------------------
(* Instructions.  I(op, dst, src, arg, line)                               *)

I(op, dst, src, arg, line) ==
  [op |-> op, dst |-> dst, src |-> src, arg |-> arg, line |-> line]

None == << >>

\* String data: the sequence of its characters.
hello == <<"h", "e", "l", "l", "o">>
yours == <<"y", "o", "u", "r", "s">>

-----------------------------------------------------------------------------
(* _2_owners.rs                                                            *)

move_data ==
  << I("alloc",        <<"s1">>, None,     <<hello>>, 90),
     I("assign",       <<"s2">>, <<"s1">>, None,        92),
     I("storage_dead", <<"s2">>, None,     None,        93),
     I("storage_dead", <<"s1">>, None,     None,        93) >>

takes_ownership(arg, line) ==
  << I("assign",       <<"some_string">>, arg, None, line),
     I("read",         None, <<"some_string">>, None, 152),
     I("storage_dead", <<"some_string">>, None, None, 153) >>

makes_copy(arg, line) ==
  << I("assign",       <<"some_integer">>, arg, None, line),
     I("read",         None, <<"some_integer">>, None, 157),
     I("storage_dead", <<"some_integer">>, None, None, 158) >>

\* ownership_in_function_calls with the print of s after the call (line 138)
\* left in.
ownership_in_function_calls_use_after_move ==
  << I("alloc", <<"s">>, None, <<hello>>, 133) >>
  \o takes_ownership(<<"s">>, 135)
  \o << I("read", None, <<"s">>, None, 138),
        I("lit", <<"x">>, None, <<5>>, 141) >>
  \o makes_copy(<<"x">>, 143)
  \o << I("read",         None, <<"x">>, None, 147),
        I("storage_dead", <<"x">>, None, None, 148),
        I("storage_dead", <<"s">>, None, None, 148) >>

ownership_in_function_calls ==
  << I("alloc", <<"s">>, None, <<hello>>, 133) >>
  \o takes_ownership(<<"s">>, 135)
  \o << I("lit", <<"x">>, None, <<5>>, 141) >>
  \o makes_copy(<<"x">>, 143)
  \o << I("read",         None, <<"x">>, None, 147),
        I("storage_dead", <<"x">>, None, None, 148),
        I("storage_dead", <<"s">>, None, None, 148) >>

gives_ownership(ret, line) ==
  << I("alloc",        <<"some_string">>, None, <<yours>>, 174),
     I("assign",       <<"ret0">>, <<"some_string">>, None, 176),
     I("storage_dead", <<"some_string">>, None, None, 177),
     I("assign",       ret, <<"ret0">>, None, line) >>

\* takes_and_gives_back returning a clone of a_string instead of a_string.
takes_and_gives_back_clone(ret, arg, line) ==
  << I("assign",       <<"a_string">>, arg, None, 180),
     I("clone",        <<"ret0">>, <<"a_string">>, None, 182),
     I("storage_dead", <<"a_string">>, None, None, 183),
     I("assign",       ret, <<"ret0">>, None, line) >>

takes_and_gives_back(ret, arg, line) ==
  << I("assign",       <<"a_string">>, arg, None, 180),
     I("assign",       <<"ret0">>, <<"a_string">>, None, 182),
     I("storage_dead", <<"a_string">>, None, None, 183),
     I("assign",       ret, <<"ret0">>, None, line) >>

ownership_in_function_returns ==
  gives_ownership(<<"s1">>, 164)
  \o << I("alloc", <<"s2">>, None, <<hello>>, 166) >>
  \o takes_and_gives_back(<<"s3">>, <<"s2">>, 168)
  \o << I("storage_dead", <<"s3">>, None, None, 169),
        I("storage_dead", <<"s2">>, None, None, 169),
        I("storage_dead", <<"s1">>, None, None, 169) >>

-----------------------------------------------------------------------------
(* _1_structs.rs                                                           *)

someusername123 ==
  <<"s","o","m","e","u","s","e","r","n","a","m","e","1","2","3">>

\* move_struct with the print of the moved field username (line 215) left in.
move_struct_use_moved_field ==
  << I("lit",    <<"moveable_user", "active">>, None, <<TRUE>>, 189),
     I("lit",    <<"moveable_user", "sign_in_count">>, None, <<1>>, 190),
     I("alloc",  <<"moveable_user", "username">>, None, <<someusername123>>, 191),
     I("alloc",  <<"moveable_user", "email">>, None, <<someusername123>>, 192),
     I("assign", <<"moved_user">>, <<"moveable_user">>, None, 199),
     I("assign", <<"moveable_user">>, <<"moved_user">>, None, 207),
     I("assign", <<"moved_username">>, <<"moveable_user", "username">>, None, 212),
     I("read",   None, <<"moveable_user", "username">>, None, 215),
     I("read",   None, <<"moveable_user", "email">>, None, 221),
     I("assign", <<"moveable_user", "username">>, <<"moved_username">>, None, 223),
     I("assign", <<"copied_active">>, <<"moveable_user", "active">>, None, 228),
     I("read",   None, <<"moveable_user", "active">>, None, 231),
     I("assign", <<"moved_user_2">>, <<"moveable_user">>, None, 234),
     I("assign", <<"moveable_user">>, <<"moved_user_2">>, None, 236),
     I("clone",  <<"cloned_username">>, <<"moveable_user", "username">>, None, 241),
     I("read",   None, <<"moveable_user", "active">>, None, 244),
     I("assign", <<"copied_user2">>, <<"moveable_user">>, None, 247),
     I("storage_dead", <<"copied_user2">>, None, None, 248),
     I("storage_dead", <<"cloned_username">>, None, None, 248),
     I("storage_dead", <<"moved_user_2">>, None, None, 248),
     I("storage_dead", <<"copied_active">>, None, None, 248),
     I("storage_dead", <<"moved_username">>, None, None, 248),
     I("storage_dead", <<"moved_user">>, None, None, 248),
     I("storage_dead", <<"moveable_user">>, None, None, 248) >>

move_struct ==
  << I("lit",    <<"moveable_user", "active">>, None, <<TRUE>>, 189),
     I("lit",    <<"moveable_user", "sign_in_count">>, None, <<1>>, 190),
     I("alloc",  <<"moveable_user", "username">>, None, <<someusername123>>, 191),
     I("alloc",  <<"moveable_user", "email">>, None, <<someusername123>>, 192),
     I("assign", <<"moved_user">>, <<"moveable_user">>, None, 199),
     I("assign", <<"moveable_user">>, <<"moved_user">>, None, 207),
     I("assign", <<"moved_username">>, <<"moveable_user", "username">>, None, 212),
     I("read",   None, <<"moveable_user", "email">>, None, 221),
     I("assign", <<"moveable_user", "username">>, <<"moved_username">>, None, 223),
     I("assign", <<"copied_active">>, <<"moveable_user", "active">>, None, 228),
     I("read",   None, <<"moveable_user", "active">>, None, 231),
     I("assign", <<"moved_user_2">>, <<"moveable_user">>, None, 234),
     I("assign", <<"moveable_user">>, <<"moved_user_2">>, None, 236),
     I("clone",  <<"cloned_username">>, <<"moveable_user", "username">>, None, 241),
     I("read",   None, <<"moveable_user", "active">>, None, 244),
     I("assign", <<"copied_user2">>, <<"moveable_user">>, None, 247),
     I("storage_dead", <<"copied_user2">>, None, None, 248),
     I("storage_dead", <<"cloned_username">>, None, None, 248),
     I("storage_dead", <<"moved_user_2">>, None, None, 248),
     I("storage_dead", <<"copied_active">>, None, None, 248),
     I("storage_dead", <<"moved_username">>, None, None, 248),
     I("storage_dead", <<"moved_user">>, None, None, 248),
     I("storage_dead", <<"moveable_user">>, None, None, 248) >>

partial_move_copy_clone_reference ==
  << I("alloc",  <<"person", "first_name">>, None, <<<<"A","l","i","c","e">>>>, 154),
     I("alloc",  <<"person", "last_name">>, None, <<<<"S","m","i","t","h">>>>, 155),
     I("lit",    <<"person", "age">>, None, <<20>>, 156),
     I("alloc",  <<"person", "id">>, None, <<0>>, 157),
     I("borrow", <<"first_name">>, <<"person", "first_name">>, <<"shared">>, 161),
     I("assign", <<"last_name">>, <<"person", "last_name">>, None, 162),
     I("assign", <<"age">>, <<"person", "age">>, None, 163),
     I("clone",  <<"id">>, <<"person", "id">>, None, 164),
     I("read_ref", None, None, <<"first_name">>, 166),
     I("read",   None, <<"last_name">>, None, 167),
     I("read",   None, <<"age">>, None, 168),
     I("read",   None, <<"id">>, None, 169),
     I("read_ref", None, None, <<"first_name">>, 173),
     I("read",   None, <<"person", "age">>, None, 174),
     I("read",   None, <<"person", "id">>, None, 175),
     I("storage_dead", <<"id">>, None, None, 176),
     I("storage_dead", <<"age">>, None, None, 176),
     I("storage_dead", <<"last_name">>, None, None, 176),
     I("storage_dead", <<"first_name">>, None, None, 176),
     I("storage_dead", <<"person">>, None, None, 176) >>

-----------------------------------------------------------------------------
(* _3_references_and_lifetimes.rs, src/main.rs                             *)

shared_reference_example ==
  << I("alloc",    <<"s">>, None, <<hello>>, 173),
     I("borrow",   <<"immut_ref_s1">>, <<"s">>, <<"shared">>, 176),
     I("borrow",   <<"immut_ref_s2">>, <<"s">>, <<"shared">>, 176),
     I("read_ref", None, None, <<"immut_ref_s1", "immut_ref_s2">>, 185),
     I("storage_dead", <<"immut_ref_s2">>, None, None, 187),
     I("storage_dead", <<"immut_ref_s1">>, None, None, 187),
     I("storage_dead", <<"s">>, None, None, 187) >>

\* mut_reference_example with the print of immut_ref_s (line 217) left in.
mut_reference_example_shared_use ==
  << I("alloc",     <<"s">>, None, <<hello>>, 205),
     I("borrow",    <<"immut_ref_s">>, <<"s">>, <<"shared">>, 208),
     I("borrow",    <<"mut_ref_s">>, <<"s">>, <<"mut">>, 211),
     I("read_ref",  None, None, <<"immut_ref_s">>, 217),
     I("write_ref", None, None, <<"mut_ref_s", <<"s">>>>, 223),
     I("write",     <<"s">>, None, <<<<"s">>>>, 226),
     I("storage_dead", <<"mut_ref_s">>, None, None, 227),
     I("storage_dead", <<"immut_ref_s">>, None, None, 227),
     I("storage_dead", <<"s">>, None, None, 227) >>

mut_reference_example ==
  << I("alloc",     <<"s">>, None, <<hello>>, 205),
     I("borrow",    <<"immut_ref_s">>, <<"s">>, <<"shared">>, 208),
     I("borrow",    <<"mut_ref_s">>, <<"s">>, <<"mut">>, 211),
     I("write_ref", None, None, <<"mut_ref_s", <<"s">>>>, 223),
     I("write",     <<"s">>, None, <<<<"s">>>>, 226),
     I("storage_dead", <<"mut_ref_s">>, None, None, 227),
     I("storage_dead", <<"immut_ref_s">>, None, None, 227),
     I("storage_dead", <<"s">>, None, None, 227) >>

reference_example_2 ==
  << I("alloc",     <<"s">>, None, <<hello>>, 9),
     I("borrow",    <<"ref1">>, <<"s">>, <<"mut">>, 12),
     I("write_ref", None, None, <<"ref1", <<"s">>>>, 15),
     I("borrow",    <<"ref2">>, <<"s">>, <<"mut">>, 19),
     I("write_ref", None, None, <<"ref2", <<"s">>>>, 20),
     I("write",     <<"s">>, None, <<<<"s">>>>, 24),
     I("storage_dead", <<"ref2">>, None, None, 25),
     I("storage_dead", <<"ref1">>, None, None, 25),
     I("storage_dead", <<"s">>, None, None, 25) >>

-----------------------------------------------------------------------------
(* _4_slices.rs                                                            *)

\* The open end of a range `lo ..`.
Open == -1

mutable_slices ==
  << I("lit",          <<"xs">>, None, <<<<1, 2, 3, 4, 5>>>>, 140),
     I("borrow_slice", <<"r1">>, <<"xs">>, <<"mut", 1, 4>>, 143),
     I("index_ref",    None, None, <<"r1", 0>>, 144),
     I("borrow_slice", <<"r2">>, <<"xs">>, <<"mut", 5, Open>>, 147),
     I("index_ref",    None, None, <<"r2", 0>>, 148),
     I("store",        <<"xs">>, None, <<<<1, 3, 4, 4, 32>>>>, 154),
     I("storage_dead", <<"r2">>, None, None, 155),
     I("storage_dead", <<"r1">>, None, None, 155),
     I("storage_dead", <<"xs">>, None, None, 155) >>

-----------------------------------------------------------------------------
(* _2_datatypes.rs.  A `let` of a name that is already bound shadows the    *)
(* earlier binding: the later bindings of index, str_version and           *)
(* string_version are named index_2, str_version_2, .. and every use of a  *)
(* name refers to the binding that is in scope at its line.  The bindings  *)
(* of scalars and tuples (lines 10-28) are independent of the rest.        *)

hello_world == <<"h", "e", "l", "l", "o", ",", " ", "w", "o", "r", "l", "d">>

data_types ==
  << I("lit",       <<"arr">>, None, <<<<1, 2, 3, 4, 5>>>>, 35),
     I("lit",       <<"arr">>, None, <<<<3, 3, 3, 3, 3>>>>, 37),
     I("index",     <<"arr_2">>, <<"arr">>, <<"const", 2>>, 39),
     I("alloc",     <<"vec">>, None, <<<<1, 2, 3, 4, 5>>>>, 46),
     I("alloc",     <<"empty_vec">>, None, << << >> >>, 49),
     I("write",     <<"empty_vec">>, None, <<<<10>>>>, 50),
     I("write",     <<"empty_vec">>, None, <<<<20>>>>, 51),
     I("index",     <<"third_element">>, <<"vec">>, <<"const", 2>>, 54),
     I("str_lit",   <<"str_version">>, None, <<hello_world>>, 64),
     I("alloc",     <<"string_version">>, None, <<<<"s">>>>, 66),
     I("as_str",    <<"str_version_2">>, <<"string_version">>, None, 67),
     I("slice_str", <<"first_char">>, <<"str_version_2">>, <<0, 1>>, 70),
     I("str_lit",   <<"str_version_3">>, None, <<hello>>, 77),
     I("string_from", <<"string_version_2">>, <<"str_version_3">>, None, 78),
     I("string_from", <<"string_version_3">>, <<"str_version_3">>, None, 80),
     I("write",     <<"string_version_3">>, None,
                    <<<<",", " ", "w", "o", "r", "l", "d", "!">>>>, 83),
     I("write",     <<"string_version_3">>, None, <<<<"!">>>>, 86),
     I("alloc",     <<"index">>, None, << << >> >>, 91),
     I("read_line", <<"index">>, None, None, 92),
     I("parse",     <<"index_2">>, <<"index">>, None, 95),
     I("index",     <<"element">>, <<"arr">>, <<"var", <<"index_2">>>>, 99),
     I("read",      None, None, <<<<"index_2">>, <<"element">>>>, 100),
     I("storage_dead", <<"element">>, None, None, 105),
     I("storage_dead", <<"index_2">>, None, None, 105),
     I("storage_dead", <<"index">>, None, None, 105),
     I("storage_dead", <<"string_version_3">>, None, None, 105),
     I("storage_dead", <<"string_version_2">>, None, None, 105),
     I("storage_dead", <<"str_version_3">>, None, None, 105),
     I("storage_dead", <<"first_char">>, None, None, 105),
     I("storage_dead", <<"str_version_2">>, None, None, 105),
     I("storage_dead", <<"string_version">>, None, None, 105),
     I("storage_dead", <<"str_version">>, None, None, 105),
     I("storage_dead", <<"third_element">>, None, None, 105),
     I("storage_dead", <<"empty_vec">>, None, None, 105),
     I("storage_dead", <<"vec">>, None, None, 105),
     I("storage_dead", <<"arr_2">>, None, None, 105),
     I("storage_dead", <<"arr">>, None, None, 105) >>

-----------------------------------------------------------------------------
(* _2_iterators.rs.  tmp is the unused Map that `v_iter.map(..);` builds    *)
(* and drops at the end of the statement.  A closure is named by its line. *)

mutably_borrowing_iterator ==
  << I("alloc", <<"v">>, None, <<<<1, 2, 3>>>>, 102),
     I("iter",  <<"v_iter">>, <<"v">>, <<"iter_mut">>, 104),
     I("adapt", <<"tmp">>, <<"v_iter">>, <<"map", 105>>, 105),
     I("storage_dead", <<"tmp">>, None, None, 105),
     I("storage_dead", <<"v_iter">>, None, None, 106),
     I("storage_dead", <<"v">>, None, None, 106) >>

owning_iterator ==
  << I("alloc", <<"v">>, None, <<<<1, 2, 3>>>>, 109),
     I("iter",  <<"v_iter">>, <<"v">>, <<"into_iter">>, 111),
     I("adapt", <<"tmp">>, <<"v_iter">>, <<"map", 112>>, 112),
     I("storage_dead", <<"tmp">>, None, None, 112),
     I("storage_dead", <<"v_iter">>, None, None, 113),
     I("storage_dead", <<"v">>, None, None, 113) >>

iterator_map_filter ==
  << I("alloc", <<"v">>, None, <<<<1, 2, 3>>>>, 157),
     I("iter",  <<"v_iter">>, <<"v">>, <<"iter">>, 160),
     I("adapt", <<"v_iter_map">>, <<"v_iter">>, <<"map", 164>>, 163),
     I("adapt", <<"v_filter_map_iter">>, <<"v_iter_map">>, <<"filter", 167>>, 166),
     I("collect", <<"v_refs">>, <<"v_filter_map_iter">>, None, 170),
     I("storage_dead", <<"v_refs">>, None, None, 171),
     I("storage_dead", <<"v_filter_map_iter">>, None, None, 171),
     I("storage_dead", <<"v_iter_map">>, None, None, 171),
     I("storage_dead", <<"v_iter">>, None, None, 171),
     I("storage_dead", <<"v">>, None, None, 171) >>

\* The closures, by source line: |x| *x + 1, |x| x + 1, |x_ref| x_ref and
\* |x_ref_ref| **x_ref_ref > 0.
Closure(c, x) ==
  CASE c = 105 -> x + 1
    [] c = 112 -> x + 1
    [] c = 164 -> x
    [] c = 167 -> x > 0

ClosureLines == {105, 112, 164, 167}

\* The methods whose calls are counted: show.
MethodLines == {100}

-----------------------------------------------------------------------------
(* _4_traits.rs.  self_2 is the `&self` of show_twice, self_3 the reference *)
(* that line 113 passes to show; s_2 and v_2 are the `s` and `v` of        *)
(* alt_show.  A method is named by the line of its `fn`.                   *)

world == <<"w", "o", "r", "l", "d">>

\* fn show(&self) -> String, for User.
show(ret, self, line) ==
  << I("call",      None, None, <<100>>, 100),
     I("to_string", <<"ret0">>, None, <<self, "username">>, 101),
     I("assign",    ret, <<"ret0">>, None, line) >>

\* show_twice calling show() a second time before it appends "world".
show_twice_shows_twice(ret, recv, line) ==
  << I("borrow", <<"self_2">>, recv, <<"shared">>, line) >>
  \o show(<<"owned_string">>, "self_2", 58)
  \o show(<<"owned_string">>, "self_2", 58)
  \o << I("str_lit",  <<"borrowed_string">>, None, <<world>>, 60),
        I("push_str", <<"owned_string">>, <<"borrowed_string">>, None, 62),
        I("assign",   <<"ret0">>, <<"owned_string">>, None, 64),
        I("storage_dead", <<"borrowed_string">>, None, None, 65),
        I("storage_dead", <<"owned_string">>, None, None, 65),
        I("storage_dead", <<"self_2">>, None, None, 65),
        I("assign",   ret, <<"ret0">>, None, line) >>

\* fn show_twice(&self) -> String, the default method of Show.
show_twice(ret, recv, line) ==
  << I("borrow", <<"self_2">>, recv, <<"shared">>, line) >>
  \o show(<<"owned_string">>, "self_2", 58)
  \o << I("str_lit",  <<"borrowed_string">>, None, <<world>>, 60),
        I("push_str", <<"owned_string">>, <<"borrowed_string">>, None, 62),
        I("assign",   <<"ret0">>, <<"owned_string">>, None, 64),
        I("storage_dead", <<"borrowed_string">>, None, None, 65),
        I("storage_dead", <<"owned_string">>, None, None, 65),
        I("storage_dead", <<"self_2">>, None, None, 65),
        I("assign",   ret, <<"ret0">>, None, line) >>

\* fn alt_show(s : String) -> Vec<char>, for User; arg is already in s_2.
alt_show(ret, line) ==
  << I("alloc",      <<"v_2">>, None, << << >> >>, 94),
     I("push_chars", <<"v_2">>, <<"s_2">>, None, 95),
     I("assign",     ret, <<"v_2">>, None, line),
     I("storage_dead", <<"v_2">>, None, None, 99),
     I("storage_dead", <<"s_2">>, None, None, 99) >>

using_traits_example ==
  << I("lit",   <<"user1", "active">>, None, <<TRUE>>, 107),
     I("lit",   <<"user1", "sign_in_count">>, None, <<0>>, 108),
     I("alloc", <<"user1", "username">>, None, <<hello>>, 109) >>
  \o show_twice(<<"s">>, <<"user1">>, 111)
  \o << I("read",   None, <<"s">>, None, 112),
        I("borrow", <<"self_3">>, <<"user1">>, <<"shared">>, 113) >>
  \o show(<<"s_2">>, "self_3", 113)
  \o alt_show(<<"v">>, 113)
  \o << I("print_debug",  None, <<"v">>, None, 114),
        I("storage_dead", <<"self_3">>, None, None, 115),
        I("storage_dead", <<"v">>, None, None, 115),
        I("storage_dead", <<"s">>, None, None, 115),
        I("storage_dead", <<"user1">>, None, None, 115) >>

\* The usernames of the users show_twice is explored with.
Usernames == {<< >>, <<"w">>, hello, yours \o world}

\* show_twice called on a User with any of the usernames.
show_twice_of_any_user ==
  << I("lit",      <<"user1", "active">>, None, <<TRUE>>, 86),
     I("lit",      <<"user1", "sign_in_count">>, None, <<0>>, 87),
     I("alloc_in", <<"user1", "username">>, None, <<Usernames>>, 88) >>
  \o show_twice(<<"s">>, <<"user1">>, 56)
  \o << I("storage_dead", <<"s">>, None, None, 66),
        I("storage_dead", <<"user1">>, None, None, 66) >>

-----------------------------------------------------------------------------
(* The interpreted functions.                                              *)

Code ==
  [ move_data |-> move_data,
    ownership_in_function_calls |-> ownership_in_function_calls,
    ownership_in_function_returns |-> ownership_in_function_returns,
    move_struct |-> move_struct,
    partial_move_copy_clone_reference |-> partial_move_copy_clone_reference,
    shared_reference_example |-> shared_reference_example,
    mut_reference_example |-> mut_reference_example,
    reference_example_2 |-> reference_example_2,
    mutable_slices |-> mutable_slices,
    data_types |-> data_types,
    mutably_borrowing_iterator |-> mutably_borrowing_iterator,
    owning_iterator |-> owning_iterator,
    iterator_map_filter |-> iterator_map_filter,
    using_traits_example |-> using_traits_example,
    show_twice |-> show_twice_of_any_user ]

Interpreted == DOMAIN Code

-----------------------------------------------------------------------------
(* Semantics of the instructions.                                          *)

Range(f) == {f[k] : k \in DOMAIN f}

Max(S) == CHOOSE m \in S : \A n \in S : n <= m

\* The places an instruction uses that are not valid.
Invalid(ps) == {p \in ps : st[p] # "valid"}

\* The leaves of place p, in declaration order, that still own an
\* allocation: what is released when p is overwritten or goes out of scope.
\* An iterator owns the allocation it runs over when it was built by
\* into_iter().
Owned(p) ==
  SelectSeq(LeavesSeq(p),
            LAMBDA l : /\ st[l] = "valid"
                       /\ \/ TypeOf(l) \in HeapTypes
                          \/ TypeOf(l) = "Iterator" /\ val[l].owns)

\* The heap cell of a place that owns one.
CellOf(p) == IF TypeOf(p) = "Iterator" THEN val[p].cell ELSE val[p]

Free(h, ls) ==
  [c \in DOMAIN h |->
     [h[c] EXCEPT !.frees = @ + Cardinality({k \in DOMAIN ls : CellOf(ls[k]) = c})]]

Dropped(ls) ==
  [k \in DOMAIN ls |-> [var |-> ls[k], data |-> heap[CellOf(ls[k])].data]]

\* The value a print of place p shows.
Show(p) ==
  IF st[p] # "valid" THEN "<invalid>"
  ELSE IF TypeOf(p) \in HeapTypes THEN heap[val[p]].data
  ELSE val[p]

Println(i, args) == Append(out, [line |-> i.line, args |-> args])

\* The references an instruction declares or uses.
RefsOf(i) ==
  CASE i.op = "read_ref" -> Range(i.arg)
    [] i.op \in {"index_ref", "write_ref"} -> {i.arg[1]}
    [] i.op \in {"borrow", "borrow_slice", "as_str"} -> {i.dst[1]}
    [] i.op \in {"slice_str", "string_from"} -> {i.src[1]}
    [] i.op = "to_string" -> {i.arg[1]}
    [] OTHER -> {}

\* The lifetime of a reference ends at its last use (non-lexical lifetimes).
LastUse(P, r) == Max({k \in DOMAIN P : r \in RefsOf(P[k])})

\* The references of bs that are used after instruction k.
Live(bs, k) == {b \in bs : LastUse(Code[prog], b.ref) > k}

Overlap(p, q) ==
  LET n == IF Len(p) < Len(q) THEN Len(p) ELSE Len(q)
  IN SubSeq(p, 1, n) = SubSeq(q, 1, n)

Access(ps, how, via) == {[place |-> p, how |-> how, via |-> via] : p \in ps}

\* let dst = String::from(arg) / Box::new(arg): a new allocation owned by dst.
ExecAlloc(i) ==
  /\ heap' = Append(heap, [data |-> i.arg[1], frees |-> 0])
  /\ st' = [st EXCEPT ![i.dst] = "valid"]
  /\ val' = [val EXCEPT ![i.dst] = Len(heap) + 1]
  /\ acc' = {}
  /\ borrows' = Live(borrows, pc)
  /\ UNCHANGED <<dropLog, badUse, out>>

\* let dst = <literal of a Copy type>.
ExecLit(i) ==
  /\ st' = [st EXCEPT ![i.dst] = "valid"]
  /\ val' = [val EXCEPT ![i.dst] = i.arg[1]]
  /\ acc' = {}
  /\ borrows' = Live(borrows, pc)
  /\ UNCHANGED <<heap, dropLog, badUse, out>>

\* dst = src: a copy when the type is Copy, a move otherwise.  A move
\* invalidates every leaf of src; a value dst still owns is dropped.
ExecAssign(i) ==
  LET srcs == Leaves(i.src)
      dsts == Leaves(i.dst)
      copy == TypeOf(i.src) \in CopyTypes
      old  == Owned(i.dst)
  IN /\ st' = [p \in AllLeaves |->
                 IF p \in dsts THEN "valid"
                 ELSE IF p \in srcs /\ ~copy THEN "moved"
                 ELSE st[p]]
     /\ val' = [p \in AllLeaves |->
                 IF p \in dsts
                 THEN LET sfx == CHOOSE sfx \in Suffixes(i.dst) : p = i.dst \o sfx
                      IN val[i.src \o sfx]
                 ELSE val[p]]
     /\ heap' = Free(heap, old)
     /\ dropLog' = dropLog \o Dropped(old)
     /\ badUse' = badUse \cup Invalid(srcs)
     /\ acc' = Access(srcs, IF copy THEN "read" ELSE "move", "")
     /\ borrows' = Live(borrows, pc)
     /\ UNCHANGED out

\* let dst = src.clone(): a new allocation holding a copy of src's data.
ExecClone(i) ==
  /\ heap' = Append(heap, [data |-> Show(i.src), frees |-> 0])
  /\ st' = [st EXCEPT ![i.dst] = "valid"]
  /\ val' = [val EXCEPT ![i.dst] = Len(heap) + 1]
  /\ badUse' = badUse \cup Invalid({i.src})
  /\ acc' = Access({i.src}, "read", "")
  /\ borrows' = Live(borrows, pc)
  /\ UNCHANGED <<dropLog, out>>

\* The places a print reads: src, or the places listed in arg.
Operands(i) == IF i.src # None THEN <<i.src>> ELSE i.arg

\* println!("{} ..", src, ..)
ExecRead(i) ==
  /\ badUse' = badUse \cup Invalid(Range(Operands(i)))
  /\ acc' = Access(Range(Operands(i)), "read", "")
  /\ out' = Println(i, [k \in DOMAIN Operands(i) |-> Show(Operands(i)[k])])
  /\ borrows' = Live(borrows, pc)
  /\ UNCHANGED <<st, val, heap, dropLog>>

\* dst goes out of scope: the data it still owns is dropped.
ExecStorageDead(i) ==
  /\ heap' = Free(heap, Owned(i.dst))
  /\ dropLog' = dropLog \o Dropped(Owned(i.dst))
  /\ st' = [p \in AllLeaves |-> IF p \in Leaves(i.dst) THEN "dead" ELSE st[p]]
  /\ acc' = {}
  /\ borrows' = Live(borrows, pc)
  /\ UNCHANGED <<val, badUse, out>>

\* let dst = &src / &mut src: dst refers to src from here to its last use.
ExecBorrow(i) ==
  /\ st' = [st EXCEPT ![i.dst] = "valid"]
  /\ val' = [val EXCEPT ![i.dst] = [target |-> i.src]]
  /\ badUse' = badUse \cup Invalid(Leaves(i.src))
  /\ acc' = Access(Leaves(i.src),
                   IF i.arg[1] = "mut" THEN "borrow_mut" ELSE "borrow_shared", "")
  /\ borrows' = Live(borrows \cup
                     {[ref |-> i.dst[1], kind |-> i.arg[1], target |-> i.src]}, pc)
  /\ UNCHANGED <<heap, dropLog, out>>

\* The end of the range lo..hi or lo.. of a slice of src.
RangeEnd(i) == IF i.arg[3] = Open THEN Len(val[i.src]) ELSE i.arg[3]

\* &mut src[lo..hi] panics unless lo <= hi <= len.
SlicePanics(i) == i.arg[2] > RangeEnd(i) \/ RangeEnd(i) > Len(val[i.src])

\* let dst = &mut src[lo..hi]
ExecBorrowSlice(i) ==
  /\ st' = [st EXCEPT ![i.dst] = "valid"]
  /\ val' = [val EXCEPT ![i.dst] =
               [target |-> i.src, lo |-> i.arg[2], hi |-> RangeEnd(i)]]
  /\ badUse' = badUse \cup Invalid(Leaves(i.src))
  /\ acc' = Access(Leaves(i.src),
                   IF i.arg[1] = "mut" THEN "borrow_mut" ELSE "borrow_shared", "")
  /\ borrows' = Live(borrows \cup
                     {[ref |-> i.dst[1], kind |-> i.arg[1], target |-> i.src]}, pc)
  /\ UNCHANGED <<heap, dropLog, out>>

\* r[idx] on a slice reference panics unless idx < len.
IndexPanics(i) ==
  LET r == val[<<i.arg[1]>>] IN i.arg[2] >= r.hi - r.lo

\* println!("{}", r[idx])
ExecIndexRef(i) ==
  LET r == val[<<i.arg[1]>>] IN
  /\ badUse' = badUse \cup Invalid({<<i.arg[1]>>} \cup Leaves(r.target))
  /\ acc' = Access(Leaves(r.target), "read", i.arg[1])
  /\ out' = Println(i, <<val[r.target][r.lo + i.arg[2] + 1]>>)
  /\ borrows' = Live(borrows, pc)
  /\ UNCHANGED <<st, val, heap, dropLog>>

\* println!("{} {}", r1, r2): reads through the references.
ExecReadRef(i) ==
  LET targets == {val[<<r>>].target : r \in Range(i.arg)} IN
  /\ badUse' = badUse \cup Invalid({<<r>> : r \in Range(i.arg)} \cup targets)
  /\ acc' = UNION {Access({val[<<r>>].target}, "read", r) : r \in Range(i.arg)}
  /\ out' = Println(i, [k \in DOMAIN i.arg |-> Show(val[<<i.arg[k]>>].target)])
  /\ borrows' = Live(borrows, pc)
  /\ UNCHANGED <<st, val, heap, dropLog>>

PushStr(h, c, chars) == [h EXCEPT ![c].data = @ \o chars]

\* r.push_str(chars): writes the String that r refers to.
ExecWriteRef(i) ==
  LET r == i.arg[1]
      target == val[<<r>>].target
  IN
  /\ heap' = PushStr(heap, val[target], i.arg[2])
  /\ badUse' = badUse \cup Invalid({<<r>>, target})
  /\ acc' = Access({target}, "write", r)
  /\ borrows' = Live(borrows, pc)
  /\ UNCHANGED <<st, val, dropLog, out>>

\* dst.push_str(chars): the owner writes its String.
ExecWrite(i) ==
  /\ heap' = PushStr(heap, val[i.dst], i.arg[1])
  /\ badUse' = badUse \cup Invalid({i.dst})
  /\ acc' = Access({i.dst}, "write", "")
  /\ borrows' = Live(borrows, pc)
  /\ UNCHANGED <<st, val, dropLog, out>>

\* dst = <literal>: the owner overwrites its (Copy) value.
ExecStore(i) ==
  /\ st' = [st EXCEPT ![i.dst] = "valid"]
  /\ val' = [val EXCEPT ![i.dst] = i.arg[1]]
  /\ acc' = Access({i.dst}, "write", "")
  /\ borrows' = Live(borrows, pc)
  /\ UNCHANGED <<heap, dropLog, badUse, out>>

\* The text a string slice views: the bytes lo..hi of the data it refers to.
\* Every character of the strings in this file is one byte long.
Str(p) == SubSeq(val[p].data, val[p].lo + 1, val[p].hi)

\* let dst: &str = "literal": a view of the whole literal.
ExecStrLit(i) ==
  /\ st' = [st EXCEPT ![i.dst] = "valid"]
  /\ val' = [val EXCEPT ![i.dst] =
               [data |-> i.arg[1], lo |-> 0, hi |-> Len(i.arg[1])]]
  /\ acc' = {}
  /\ borrows' = Live(borrows, pc)
  /\ UNCHANGED <<heap, dropLog, badUse, out>>

\* let dst: &str = &src, src a String: a view of the whole of src's data.
ExecAsStr(i) ==
  /\ st' = [st EXCEPT ![i.dst] = "valid"]
  /\ val' = [val EXCEPT ![i.dst] =
               [data |-> heap[val[i.src]].data, lo |-> 0,
                hi |-> Len(heap[val[i.src]].data)]]
  /\ badUse' = badUse \cup Invalid({i.src})
  /\ acc' = Access({i.src}, "borrow_shared", "")
  /\ borrows' = Live(borrows \cup
                     {[ref |-> i.dst[1], kind |-> "shared", target |-> i.src]}, pc)
  /\ UNCHANGED <<heap, dropLog, out>>

\* &src[lo..hi] on a string slice panics unless lo <= hi <= len.
StrSlicePanics(i) == i.arg[1] > i.arg[2] \/ i.arg[2] > Len(Str(i.src))

\* let dst = &src[lo..hi], src a string slice: the bytes lo..hi of src.
ExecSliceStr(i) ==
  /\ st' = [st EXCEPT ![i.dst] = "valid"]
  /\ val' = [val EXCEPT ![i.dst] =
               [data |-> val[i.src].data, lo |-> val[i.src].lo + i.arg[1],
                hi |-> val[i.src].lo + i.arg[2]]]
  /\ badUse' = badUse \cup Invalid({i.src})
  /\ acc' = Access({i.src}, "read", "")
  /\ borrows' = Live(borrows, pc)
  /\ UNCHANGED <<heap, dropLog, out>>

\* let dst = String::from(src) / src.to_owned(), src a string slice: a new
\* allocation holding a copy of the text of src.
ExecStringFrom(i) ==
  /\ heap' = Append(heap, [data |-> Str(i.src), frees |-> 0])
  /\ st' = [st EXCEPT ![i.dst] = "valid"]
  /\ val' = [val EXCEPT ![i.dst] = Len(heap) + 1]
  /\ badUse' = badUse \cup Invalid({i.src})
  /\ acc' = Access({i.src}, "read", "")
  /\ borrows' = Live(borrows, pc)
  /\ UNCHANGED <<dropLog, out>>

\* A method is entered.
ExecCall(i) ==
  /\ acc' = {}
  /\ borrows' = Live(borrows, pc)
  /\ UNCHANGED <<st, val, heap, dropLog, badUse, out>>

\* let dst = String::from(..) for any of the strings of arg.
ExecAllocIn(i) ==
  \E data \in i.arg[1] :
    ExecAlloc([i EXCEPT !.arg = <<data>>])

\* let dst = self.field.to_string(): a new allocation holding a copy of the
\* String in the field of the value that self refers to.
ExecToString(i) ==
  LET field == val[<<i.arg[1]>>].target \o <<i.arg[2]>> IN
  /\ heap' = Append(heap, [data |-> heap[val[field]].data, frees |-> 0])
  /\ st' = [st EXCEPT ![i.dst] = "valid"]
  /\ val' = [val EXCEPT ![i.dst] = Len(heap) + 1]
  /\ badUse' = badUse \cup Invalid({<<i.arg[1]>>, field})
  /\ acc' = Access({field}, "read", i.arg[1])
  /\ borrows' = Live(borrows, pc)
  /\ UNCHANGED <<dropLog, out>>

\* dst.push_str(src), src a string slice: appends the text of src.
ExecPushStr(i) ==
  /\ heap' = PushStr(heap, val[i.dst], Str(i.src))
  /\ badUse' = badUse \cup Invalid({i.dst, i.src})
  /\ acc' = Access({i.dst}, "write", "") \cup Access({i.src}, "read", "")
  /\ borrows' = Live(borrows, pc)
  /\ UNCHANGED <<st, val, dropLog, out>>

\* for c in cs.chars() { v.push(c); }
RECURSIVE PushChars(_, _)
PushChars(v, cs) ==
  IF cs = << >> THEN v ELSE PushChars(Append(v, Head(cs)), Tail(cs))

\* for c in src.chars() { dst.push(c); }, src a String and dst a Vec<char>.
ExecPushChars(i) ==
  /\ heap' = [heap EXCEPT ![val[i.dst]].data = PushChars(@, heap[val[i.src]].data)]
  /\ badUse' = badUse \cup Invalid({i.dst, i.src})
  /\ acc' = Access({i.dst}, "write", "") \cup Access({i.src}, "read", "")
  /\ borrows' = Live(borrows, pc)
  /\ UNCHANGED <<st, val, dropLog, out>>

\* The Debug text of the elements of a Vec<char>: 'a', 'b', ..  None of the
\* characters of this file needs an escape.
RECURSIVE DebugChars(_)
DebugChars(cs) ==
  IF cs = << >> THEN << >>
  ELSE <<"'", Head(cs), "'">>
       \o (IF Tail(cs) = << >> THEN << >> ELSE <<",", " ">>)
       \o DebugChars(Tail(cs))

\* The Debug text of a Vec<char>.
DebugVec(cs) == <<"[">> \o DebugChars(cs) \o <<"]">>

\* print!("{src:?}"), src a Vec<char>.
ExecPrintDebug(i) ==
  /\ badUse' = badUse \cup Invalid({i.src})
  /\ acc' = Access({i.src}, "read", "")
  /\ out' = Println(i, <<DebugVec(heap[val[i.src]].data)>>)
  /\ borrows' = Live(borrows, pc)
  /\ UNCHANGED <<st, val, heap, dropLog>>

\* The elements of an array or a Vec.
Elements(p) == IF TypeOf(p) \in HeapTypes THEN heap[val[p]].data ELSE val[p]

\* The index of src[idx]: a constant or the value of a variable.
IndexOf(i) == IF i.arg[1] = "const" THEN i.arg[2] ELSE val[i.arg[2]]

\* src[idx] without a bounds check.
ArrayIndexUnchecked(i) == FALSE

\* src[idx] panics unless idx < len.
ArrayIndexPanics(i) == IndexOf(i) >= Len(Elements(i.src))

\* let dst = src[idx] (the element type is Copy).  The access is only made
\* within bounds; 0 stands for whatever an unchecked access would read.
ExecIndex(i) ==
  /\ st' = [st EXCEPT ![i.dst] = "valid"]
  /\ val' = [val EXCEPT ![i.dst] =
               IF IndexOf(i) < Len(Elements(i.src))
               THEN Elements(i.src)[IndexOf(i) + 1] ELSE 0]
  /\ badUse' = badUse \cup Invalid({i.src})
  /\ acc' = Access({i.src}, "read", "")
  /\ borrows' = Live(borrows, pc)
  /\ UNCHANGED <<heap, dropLog, out>>

\* io::stdin().read_line(&mut dst): appends the line on stdin, newline
\* included, to dst; at end of input nothing is appended.
ExecReadLine(i) ==
  /\ heap' = PushStr(heap, val[i.dst], stdin)
  /\ badUse' = badUse \cup Invalid({i.dst})
  /\ acc' = Access({i.dst}, "write", "")
  /\ borrows' = Live(borrows, pc)
  /\ UNCHANGED <<st, val, dropLog, out>>

Whitespace == {" ", "\n"}

RECURSIVE TrimStart(_)
TrimStart(cs) ==
  IF cs # << >> /\ Head(cs) \in Whitespace THEN TrimStart(Tail(cs)) ELSE cs

RECURSIVE TrimEnd(_)
TrimEnd(cs) ==
  IF cs # << >> /\ cs[Len(cs)] \in Whitespace
  THEN TrimEnd(SubSeq(cs, 1, Len(cs) - 1)) ELSE cs

\* str::trim
Trim(cs) == TrimEnd(TrimStart(cs))

Digit ==
  "0" :> 0 @@ "1" :> 1 @@ "2" :> 2 @@ "3" :> 3 @@ "4" :> 4 @@
  "5" :> 5 @@ "6" :> 6 @@ "7" :> 7 @@ "8" :> 8 @@ "9" :> 9

RECURSIVE Decimal(_, _)
Decimal(cs, n) ==
  IF cs = << >> THEN n ELSE Decimal(Tail(cs), 10 * n + Digit[Head(cs)])

ParseError == -1

\* str::parse::<usize>: an optional `+` and one or more decimal digits.
ParseUsize(cs) ==
  LET ds == IF cs # << >> /\ Head(cs) = "+" THEN Tail(cs) ELSE cs
  IN IF ds # << >> /\ \A k \in DOMAIN ds : ds[k] \in DOMAIN Digit
     THEN Decimal(ds, 0)
     ELSE ParseError

\* src.trim().parse().expect(..) panics when the text is not a number.
ParsePanics(i) == ParseUsize(Trim(heap[val[i.src]].data)) = ParseError

\* let dst: usize = src.trim().parse().expect(..)
ExecParse(i) ==
  /\ st' = [st EXCEPT ![i.dst] = "valid"]
  /\ val' = [val EXCEPT ![i.dst] = ParseUsize(Trim(heap[val[i.src]].data))]
  /\ badUse' = badUse \cup Invalid({i.src})
  /\ acc' = Access({i.src}, "read", "")
  /\ borrows' = Live(borrows, pc)
  /\ UNCHANGED <<heap, dropLog, out>>

\* let dst = src.iter() / src.iter_mut() / src.into_iter(): an iterator at
\* the start of src's elements.  into_iter() moves src into the iterator.
ExecIter(i) ==
  LET owns == i.arg[1] = "into_iter" IN
  /\ st' = [st EXCEPT ![i.dst] = "valid",
                       ![i.src] = IF owns THEN "moved" ELSE @]
  /\ val' = [val EXCEPT ![i.dst] =
               [cell |-> val[i.src], pos |-> 0, layers |-> << >>, owns |-> owns]]
  /\ badUse' = badUse \cup Invalid({i.src})
  /\ acc' = Access({i.src},
                   CASE i.arg[1] = "iter" -> "borrow_shared"
                     [] i.arg[1] = "iter_mut" -> "borrow_mut"
                     [] i.arg[1] = "into_iter" -> "move", "")
  /\ borrows' = Live(borrows, pc)
  /\ UNCHANGED <<heap, dropLog, out>>

\* let dst = src.map(closure) / src.filter(closure): src is moved into a new
\* iterator that holds the closure.
ExecAdapt(i) ==
  /\ st' = [st EXCEPT ![i.dst] = "valid", ![i.src] = "moved"]
  /\ val' = [val EXCEPT ![i.dst] =
               [val[i.src] EXCEPT !.layers = Append(@, <<i.arg[1], i.arg[2]>>)]]
  /\ badUse' = badUse \cup Invalid({i.src})
  /\ acc' = Access({i.src}, "move", "")
  /\ borrows' = Live(borrows, pc)
  /\ UNCHANGED <<heap, dropLog, out>>

\* One element x through the adaptors ls[j..]: each map and each filter
\* invokes its closure once; a filter that answers false drops the element.
RECURSIVE Through(_, _, _, _)
Through(ls, j, x, inv) ==
  IF j > Len(ls) THEN [keep |-> TRUE, x |-> x, inv |-> inv]
  ELSE LET c == ls[j][2]
           called == [inv EXCEPT ![c] = @ + 1]
       IN IF ls[j][1] = "map"
          THEN Through(ls, j + 1, Closure(c, x), called)
          ELSE IF Closure(c, x)
               THEN Through(ls, j + 1, x, called)
               ELSE [keep |-> FALSE, x |-> x, inv |-> called]

\* next() until None: the items produced and the closure invocations.
RECURSIVE Drain(_, _, _, _)
Drain(it, k, items, inv) ==
  IF k > Len(heap[it.cell].data) THEN [items |-> items, inv |-> inv]
  ELSE LET r == Through(it.layers, 1, heap[it.cell].data[k], inv)
       IN Drain(it, k + 1, IF r.keep THEN Append(items, r.x) ELSE items, r.inv)

\* let dst: Vec<_> = src.collect(): consumes src and allocates the Vec of
\* the items it produces.
ExecCollect(i) ==
  /\ heap' = Append(heap, [data |-> Drain(val[i.src], val[i.src].pos + 1,
                                          << >>, invoked).items,
                           frees |-> 0])
  /\ st' = [st EXCEPT ![i.dst] = "valid", ![i.src] = "moved"]
  /\ val' = [val EXCEPT ![i.dst] = Len(heap) + 1]
  /\ badUse' = badUse \cup Invalid({i.src})
  /\ acc' = Access({i.src}, "move", "")
  /\ borrows' = Live(borrows, pc)
  /\ UNCHANGED <<dropLog, out>>

\* An adaptor that runs its closure over the elements when it is built.
AdaptInvokesEagerly(i) ==
  [invoked EXCEPT ![i.arg[2]] = @ + Len(heap[val[i.src].cell].data)]

\* The closure invocations after map() / filter(): the adaptors are lazy
\* and invoke nothing.
AdaptInvokes(i) == invoked

\* The closure invocations after an instruction.
Invokes(i) ==
  CASE i.op = "adapt"   -> AdaptInvokes(i)
    [] i.op = "collect" -> Drain(val[i.src], val[i.src].pos + 1, << >>, invoked).inv
    [] i.op = "call"    -> [invoked EXCEPT ![i.arg[1]] = @ + 1]
    [] OTHER            -> invoked

Exec(i) ==
  CASE i.op = "alloc"        -> ExecAlloc(i)
    [] i.op = "index"        -> ExecIndex(i)
    [] i.op = "read_line"    -> ExecReadLine(i)
    [] i.op = "parse"        -> ExecParse(i)
    [] i.op = "iter"         -> ExecIter(i)
    [] i.op = "adapt"        -> ExecAdapt(i)
    [] i.op = "collect"      -> ExecCollect(i)
    [] i.op = "lit"          -> ExecLit(i)
    [] i.op = "assign"       -> ExecAssign(i)
    [] i.op = "clone"        -> ExecClone(i)
    [] i.op = "read"         -> ExecRead(i)
    [] i.op = "storage_dead" -> ExecStorageDead(i)
    [] i.op = "borrow"       -> ExecBorrow(i)
    [] i.op = "borrow_slice" -> ExecBorrowSlice(i)
    [] i.op = "index_ref"    -> ExecIndexRef(i)
    [] i.op = "read_ref"     -> ExecReadRef(i)
    [] i.op = "write_ref"    -> ExecWriteRef(i)
    [] i.op = "write"        -> ExecWrite(i)
    [] i.op = "store"        -> ExecStore(i)
    [] i.op = "str_lit"      -> ExecStrLit(i)
    [] i.op = "as_str"       -> ExecAsStr(i)
    [] i.op = "slice_str"    -> ExecSliceStr(i)
    [] i.op = "string_from"  -> ExecStringFrom(i)
    [] i.op = "call"         -> ExecCall(i)
    [] i.op = "alloc_in"     -> ExecAllocIn(i)
    [] i.op = "to_string"    -> ExecToString(i)
    [] i.op = "push_str"     -> ExecPushStr(i)
    [] i.op = "push_chars"   -> ExecPushChars(i)
    [] i.op = "print_debug"  -> ExecPrintDebug(i)

Panics(i) ==
  CASE i.op = "borrow_slice" -> SlicePanics(i)
    [] i.op = "index_ref"    -> IndexPanics(i)
    [] i.op = "index"        -> ArrayIndexPanics(i)
    [] i.op = "parse"        -> ParsePanics(i)
    [] i.op = "slice_str"    -> StrSlicePanics(i)
    [] OTHER                 -> FALSE

\* One statement of an interpreted function.  A panic ends the function at
\* the panicking statement.
Step(P) ==
  /\ status = "running"
  /\ pc <= Len(P)
  /\ IF Panics(P[pc])
     THEN /\ status' = "panicked"
          /\ UNCHANGED <<pc, st, val, heap, dropLog, badUse, borrows, acc, out,
                         stdin, invoked>>
     ELSE /\ Exec(P[pc])
          /\ pc' = pc + 1
          /\ status' = IF pc = Len(P) THEN "done" ELSE "running"
          /\ stdin' = IF P[pc].op = "read_line" THEN << >> ELSE stdin
          /\ invoked' = Invokes(P[pc])
  /\ UNCHANGED <<prog, returned, calls, overflow_checks>>

-----------------------------------------------------------------------------
(* _2_iterators.rs: the Fibonacci iterator                                 *)

\* Bound on the number of calls of next() that are explored.
MaxCalls == 50

\* A u32 is kept as its two 16-bit halves, hi * 2^16 + lo.
Half == 65536

U32(n) == [hi |-> n \div Half, lo |-> n % Half]

\* a + b on u32: the wrapped sum and whether the addition overflowed.
AddU32(a, b) ==
  LET lo == a.lo + b.lo
      hi == a.hi + b.hi + lo \div Half
  IN [sum |-> [hi |-> hi % Half, lo |-> lo % Half], overflow |-> hi >= Half]

\* The iterators the calls start from: the sequence from 0, 1 and from 1, 1.
FibSeeds == {<<U32(0), U32(1)>>, <<U32(1), U32(1)>>}

Some(v) == [some |-> TRUE, v |-> v]

NoCall == [some |-> FALSE, v |-> U32(0)]

curr == <<"self", "curr">>

next == <<"self", "next">>

\* fn next(&mut self) -> Option<u32>.  `current + self.next` overflows u32
\* once the sum reaches 2^32: with overflow checks the call panics (after
\* self.curr was assigned), without them the sum wraps.
FibonacciNext ==
  LET current == val[curr]
      add == AddU32(current, val[next])
  IN
  /\ prog = "fibonacci"
  /\ status = "running"
  /\ calls < MaxCalls
  /\ IF add.overflow /\ overflow_checks
     THEN /\ val' = [val EXCEPT ![curr] = val[next]]
          /\ status' = "panicked"
          /\ UNCHANGED <<returned, calls>>
     ELSE /\ val' = [val EXCEPT ![curr] = val[next], ![next] = add.sum]
          /\ returned' = Some(current)
          /\ calls' = calls + 1
          /\ UNCHANGED status
  /\ UNCHANGED <<prog, pc, st, heap, dropLog, badUse, borrows, acc, out,
                 overflow_checks, stdin, invoked>>

-----------------------------------------------------------------------------
(* 4_control_flow.rs.  pc is the source line of the next statement.        *)

At(line) == prog = "control_flow" /\ status = "running" /\ pc = line

Bind(p, v) ==
  /\ st' = [st EXCEPT ![p] = "valid"]
  /\ val' = [val EXCEPT ![p] = v]

Goto(line) ==
  /\ pc' = line
  /\ UNCHANGED <<prog, status, heap, dropLog, badUse, borrows, acc,
                 returned, calls, overflow_checks, stdin, invoked>>

count == <<"count">>

remaining == <<"remaining">>

number == <<"number">>

\* let x = if 3 < 5 { println!("3 < 5"); true } else { println!("3 > 5"); false };
IfElse ==
  /\ At(5)
  /\ IF 3 < 5
     THEN out' = Append(out, [line |-> 7, args |-> << >>]) /\ Bind(<<"x">>, TRUE)
     ELSE out' = Append(out, [line |-> 10, args |-> << >>]) /\ Bind(<<"x">>, FALSE)
  /\ Goto(20)

\* let mut count: i32 = 0;
LetCount == At(20) /\ Bind(count, 0) /\ UNCHANGED out /\ Goto(22)

\* 'counting_up: loop { println!("count = {count}");
PrintCount ==
  /\ At(22)
  /\ out' = Append(out, [line |-> 22, args |-> <<val[count]>>])
  /\ UNCHANGED <<st, val>>
  /\ Goto(23)

\* let mut remaining: i32 = 5;
LetRemaining == At(23) /\ Bind(remaining, 5) /\ UNCHANGED out /\ Goto(26)

\* loop { println!("remaining = {remaining}");
PrintRemaining ==
  /\ At(26)
  /\ out' = Append(out, [line |-> 26, args |-> <<val[remaining]>>])
  /\ UNCHANGED <<st, val>>
  /\ Goto(27)

\* A plain break that leaves both loops.
BreakInnerLeavesOuter ==
  /\ At(27)
  /\ UNCHANGED <<st, val, out>>
  /\ Goto(IF val[remaining] = 0 THEN 40 ELSE 30)

\* if remaining == 0 { break; }: leaves the inner loop only.
BreakInner ==
  /\ At(27)
  /\ UNCHANGED <<st, val, out>>
  /\ Goto(IF val[remaining] = 0 THEN 35 ELSE 30)

\* The labelled break taken one iteration early.
BreakCountingUpEarly ==
  /\ At(30)
  /\ UNCHANGED <<st, val, out>>
  /\ Goto(IF val[count] = 2 THEN 40 ELSE 33)

\* if count == 3 { break 'counting_up; }: leaves the outer loop.
BreakCountingUp ==
  /\ At(30)
  /\ UNCHANGED <<st, val, out>>
  /\ Goto(IF val[count] = 3 THEN 40 ELSE 33)

\* remaining -= 1;
DecRemaining ==
  /\ At(33)
  /\ val' = [val EXCEPT ![remaining] = @ - 1]
  /\ UNCHANGED <<st, out>>
  /\ Goto(26)

\* count += 1;
IncCount ==
  /\ At(35)
  /\ val' = [val EXCEPT ![count] = @ + 1]
  /\ UNCHANGED <<st, out>>
  /\ Goto(36)

\* println!("End count = {count}"); and back to the top of 'counting_up.
PrintEndCount ==
  /\ At(36)
  /\ out' = Append(out, [line |-> 36, args |-> <<val[count]>>])
  /\ UNCHANGED <<st, val>>
  /\ Goto(22)

\* let mut number = 3;
LetNumber == At(40) /\ Bind(number, 3) /\ UNCHANGED out /\ Goto(41)

\* while number != 0 {
WhileNumber ==
  /\ At(41)
  /\ UNCHANGED <<st, val, out>>
  /\ Goto(IF val[number] # 0 THEN 42 ELSE 47)

\* println!("{number}!");
PrintNumber ==
  /\ At(42)
  /\ out' = Append(out, [line |-> 42, args |-> <<val[number]>>])
  /\ UNCHANGED <<st, val>>
  /\ Goto(43)

\* number -= 1;
DecNumber ==
  /\ At(43)
  /\ val' = [val EXCEPT ![number] = @ - 1]
  /\ UNCHANGED <<st, out>>
  /\ Goto(41)

\* let arr = [10, 20, 30, 40, 50];  into_iter is the position of the
\* iterator that `for element in arr` creates.
LetArr ==
  /\ At(47)
  /\ st' = [st EXCEPT ![<<"arr">>] = "valid", ![<<"into_iter">>] = "valid"]
  /\ val' = [val EXCEPT ![<<"arr">>] = <<10, 20, 30, 40, 50>>,
                        ![<<"into_iter">>] = 0]
  /\ UNCHANGED out
  /\ Goto(49)

\* for element in arr {: binds the next element, or ends the function.
ForElement ==
  /\ At(49)
  /\ IF val[<<"into_iter">>] < Len(val[<<"arr">>])
     THEN /\ st' = [st EXCEPT ![<<"element">>] = "valid"]
          /\ val' = [val EXCEPT ![<<"element">>] = val[<<"arr">>][val[<<"into_iter">>] + 1],
                                ![<<"into_iter">>] = @ + 1]
          /\ pc' = 50
          /\ UNCHANGED status
     ELSE /\ pc' = 52
          /\ status' = "done"
          /\ UNCHANGED <<st, val>>
  /\ UNCHANGED <<prog, out, heap, dropLog, badUse, borrows, acc,
                 returned, calls, overflow_checks, stdin, invoked>>

\* println!("the value is: {element}");
PrintElement ==
  /\ At(50)
  /\ out' = Append(out, [line |-> 50, args |-> <<val[<<"element">>]>>])
  /\ UNCHANGED <<st, val>>
  /\ Goto(49)

-----------------------------------------------------------------------------
(* _5_generics.rs.  pc is the source line of the next statement.  T is      *)
(* instantiated with an integer type.  A slice `&[T]` is the sequence of    *)
(* the elements it views; a reference `&T` into the slice is the position   *)
(* (from 0) of the element it points to, so that two references are equal   *)
(* exactly when they point to the same element.  list is the parameter of   *)
(* generics_in_functions, list_2 the parameter of the function that calls   *)
(* it; ret_ref and ret_sugar are their return places.                       *)

\* Bounds on the slices the functions are called with.
MaxListLen == 3

MaxElem == 3

RECURSIVE Lists(_)
Lists(n) ==
  IF n = 0 THEN {<< >>}
  ELSE Lists(n - 1) \cup {Append(l, e) : l \in Lists(n - 1), e \in 1..MaxElem}

Sugar == {"generics_in_functions_implsugar", "generics_in_functions_wheresugar"}

Generics == {"generics_in_functions"} \cup Sugar

InGenerics(line) == prog \in Generics /\ status = "running" /\ pc = line

\* The element a reference points to.
Deref(r) == val[<<"list">>][val[r] + 1]

\* `>=` in place of `>`.
Ge(a, b) == a >= b

\* PartialOrd::gt on the element type.
Gt(a, b) == a > b

\* generics_in_functions(list): the argument is passed to the parameter.
Call(line) ==
  /\ InGenerics(line)
  /\ Bind(<<"list">>, val[<<"list_2">>])
  /\ UNCHANGED out
  /\ Goto(37)

\* fn generics_in_functions_implsugar(list) { generics_in_functions(list)
ImplSugarCall == prog = "generics_in_functions_implsugar" /\ Call(47)

\* fn generics_in_functions_wheresugar(list) { generics_in_functions(list)
WhereSugarCall == prog = "generics_in_functions_wheresugar" /\ Call(54)

\* let mut largest = &list[0];  panics when list is empty.  into_iter is the
\* position of the iterator that `for item in list` creates.
LetLargest ==
  /\ InGenerics(37)
  /\ IF Len(val[<<"list">>]) = 0
     THEN /\ status' = "panicked"
          /\ UNCHANGED <<pc, st, val>>
     ELSE /\ st' = [st EXCEPT ![<<"largest">>] = "valid", ![<<"into_iter">>] = "valid"]
          /\ val' = [val EXCEPT ![<<"largest">>] = 0, ![<<"into_iter">>] = 0]
          /\ pc' = 38
          /\ UNCHANGED status
  /\ UNCHANGED <<prog, heap, dropLog, badUse, borrows, acc, out,
                 returned, calls, overflow_checks, stdin, invoked>>

\* for item in list {: binds a reference to the next element, or leaves the loop.
ForItem ==
  /\ InGenerics(38)
  /\ IF val[<<"into_iter">>] < Len(val[<<"list">>])
     THEN /\ st' = [st EXCEPT ![<<"item">>] = "valid"]
          /\ val' = [val EXCEPT ![<<"item">>] = val[<<"into_iter">>],
                                ![<<"into_iter">>] = @ + 1]
          /\ Goto(39)
     ELSE /\ UNCHANGED <<st, val>>
          /\ Goto(43)
  /\ UNCHANGED out

\* if item > largest {
IfItemGreater ==
  /\ InGenerics(39)
  /\ UNCHANGED <<st, val, out>>
  /\ Goto(IF Gt(Deref(<<"item">>), Deref(<<"largest">>)) THEN 40 ELSE 38)

\* largest = item;
AssignLargest ==
  /\ InGenerics(40)
  /\ Bind(<<"largest">>, val[<<"item">>])
  /\ UNCHANGED out
  /\ Goto(38)

\* The line a return of generics_in_functions continues at: the end of the
\* calling function.
ReturnLine ==
  [ generics_in_functions |-> 44,
    generics_in_functions_implsugar |-> 48,
    generics_in_functions_wheresugar |-> 55 ]

\* largest }: returns the reference.
ReturnLargest ==
  /\ InGenerics(43)
  /\ Bind(<<"ret_ref">>, val[<<"largest">>])
  /\ pc' = ReturnLine[prog]
  /\ status' = IF prog \in Sugar THEN "running" ELSE "done"
  /\ UNCHANGED <<prog, heap, dropLog, badUse, borrows, acc, out,
                 returned, calls, overflow_checks, stdin, invoked>>

\* The value of the call is the value of the calling function.
SugarReturn(line) ==
  /\ InGenerics(line)
  /\ Bind(<<"ret_sugar">>, val[<<"ret_ref">>])
  /\ pc' = line
  /\ status' = "done"
  /\ UNCHANGED <<prog, heap, dropLog, badUse, borrows, acc, out,
                 returned, calls, overflow_checks, stdin, invoked>>

ImplSugarReturn == prog = "generics_in_functions_implsugar" /\ SugarReturn(48)

WhereSugarReturn == prog = "generics_in_functions_wheresugar" /\ SugarReturn(55)

-----------------------------------------------------------------------------

Programs == Interpreted \cup {"fibonacci", "control_flow"} \cup Generics

vars == <<prog, pc, status, st, val, heap, dropLog, badUse, borrows, acc, out,
          returned, calls, overflow_checks, stdin, invoked>>

InitCommon ==
  /\ status = "running"
  /\ heap = << >>
  /\ dropLog = << >>
  /\ badUse = {}
  /\ borrows = {}
  /\ acc = {}
  /\ out = << >>
  /\ returned = NoCall
  /\ calls = 0
  /\ invoked = [c \in ClosureLines \cup MethodLines |-> 0]

\* The value of a place before it is initialised, by its type.
Default(p) ==
  CASE TypeOf(p) = "[i32; 5]" -> << >>
    [] TypeOf(p) \in {"&String", "&mut String", "&User"} -> [target |-> << >>]
    [] TypeOf(p) = "&mut [i32]" -> [target |-> << >>, lo |-> 0, hi |-> 0]
    [] TypeOf(p) = "&str" -> [data |-> << >>, lo |-> 0, hi |-> 0]
    [] TypeOf(p) = "&[T]" -> << >>
    [] TypeOf(p) = "bool" -> FALSE
    [] TypeOf(p) = "u32" -> U32(0)
    [] TypeOf(p) = "Iterator" ->
         [cell |-> 0, pos |-> 0, layers |-> << >>, owns |-> FALSE]
    [] OTHER -> 0

\* Bound on the number of characters of the input line before its newline.
MaxLineLen == 2

Alphabet == {"0", "4", "5", "6", " ", "x", "+"}

RECURSIVE Texts(_)
Texts(n) ==
  IF n = 0 THEN {<< >>}
  ELSE Texts(n - 1) \cup {Append(t, c) : t \in Texts(n - 1), c \in Alphabet}

\* What standard input holds: nothing (end of input), or one line.
StdinLines == {<< >>} \cup {t \o <<"\n">> : t \in Texts(MaxLineLen)}

InitInterpreted ==
  /\ prog \in Interpreted
  /\ pc = 1
  /\ st = [p \in AllLeaves |-> "unborn"]
  /\ val = [p \in AllLeaves |-> Default(p)]
  /\ overflow_checks = TRUE
  /\ stdin \in IF prog = "data_types" THEN StdinLines ELSE {<< >>}

\* A Fibonacci value built from one of the seeds, in a debug or release build.
InitFibonacci ==
  /\ prog = "fibonacci"
  /\ pc = 55
  /\ \E seed \in FibSeeds :
       /\ st = [p \in AllLeaves |-> IF p \in {curr, next} THEN "valid" ELSE "unborn"]
       /\ val = [p \in AllLeaves |->
                   IF p = curr THEN seed[1] ELSE IF p = next THEN seed[2] ELSE Default(p)]
  /\ overflow_checks \in BOOLEAN
  /\ stdin = << >>

InitControlFlow ==
  /\ prog = "control_flow"
  /\ pc = 5
  /\ st = [p \in AllLeaves |-> "unborn"]
  /\ val = [p \in AllLeaves |-> IF p = <<"x">> THEN FALSE ELSE Default(p)]
  /\ overflow_checks = TRUE
  /\ stdin = << >>

\* A call of one of the functions of _5_generics.rs with a slice.
InitGenerics ==
  /\ prog \in Generics
  /\ pc = IF prog = "generics_in_functions" THEN 37 ELSE ReturnLine[prog] - 1
  /\ \E l \in Lists(MaxListLen) :
       LET param == IF prog \in Sugar THEN <<"list_2">> ELSE <<"list">> IN
       /\ st = [p \in AllLeaves |-> IF p = param THEN "valid" ELSE "unborn"]
       /\ val = [p \in AllLeaves |-> IF p = param THEN l ELSE Default(p)]
  /\ overflow_checks = TRUE
  /\ stdin = << >>

Init ==
  /\ InitCommon
  /\ \/ InitInterpreted
     \/ InitFibonacci
     \/ InitControlFlow
     \/ InitGenerics

MoveData == prog = "move_data" /\ Step(move_data)

OwnershipInFunctionCalls ==
  prog = "ownership_in_function_calls" /\ Step(ownership_in_function_calls)

OwnershipInFunctionReturns ==
  prog = "ownership_in_function_returns" /\ Step(ownership_in_function_returns)

MoveStruct == prog = "move_struct" /\ Step(move_struct)

PartialMoveCopyCloneReference ==
  prog = "partial_move_copy_clone_reference"
  /\ Step(partial_move_copy_clone_reference)

SharedReferenceExample ==
  prog = "shared_reference_example" /\ Step(shared_reference_example)

MutReferenceExample ==
  prog = "mut_reference_example" /\ Step(mut_reference_example)

ReferenceExample2 == prog = "reference_example_2" /\ Step(reference_example_2)

MutableSlices == prog = "mutable_slices" /\ Step(mutable_slices)

DataTypes == prog = "data_types" /\ Step(data_types)

MutablyBorrowingIterator ==
  prog = "mutably_borrowing_iterator" /\ Step(mutably_borrowing_iterator)

OwningIterator == prog = "owning_iterator" /\ Step(owning_iterator)

IteratorMapFilter == prog = "iterator_map_filter" /\ Step(iterator_map_filter)

UsingTraitsExample == prog = "using_traits_example" /\ Step(using_traits_example)

ShowTwice == prog = "show_twice" /\ Step(show_twice_of_any_user)

Next ==
  \/ MoveData
  \/ OwnershipInFunctionCalls
  \/ OwnershipInFunctionReturns
  \/ MoveStruct
  \/ PartialMoveCopyCloneReference
  \/ SharedReferenceExample
  \/ MutReferenceExample
  \/ ReferenceExample2
  \/ MutableSlices
  \/ DataTypes
  \/ MutablyBorrowingIterator
  \/ OwningIterator
  \/ IteratorMapFilter
  \/ UsingTraitsExample
  \/ ShowTwice
  \/ FibonacciNext
  \/ IfElse
  \/ LetCount
  \/ PrintCount
  \/ LetRemaining
  \/ PrintRemaining
  \/ BreakInner
  \/ BreakCountingUp
  \/ DecRemaining
  \/ IncCount
  \/ PrintEndCount
  \/ LetNumber
  \/ WhileNumber
  \/ PrintNumber
  \/ DecNumber
  \/ LetArr
  \/ ForElement
  \/ PrintElement
  \/ ImplSugarCall
  \/ WhereSugarCall
  \/ LetLargest
  \/ ForItem
  \/ IfItemGreater
  \/ AssignLargest
  \/ ReturnLargest
  \/ ImplSugarReturn
  \/ WhereSugarReturn

Spec == Init /\ [][Next]_vars

\* A running function always takes its next step.
FairSpec == Spec /\ WF_vars(Next)

-----------------------------------------------------------------------------
(* Properties.                                                             *)

\* The instruction executed last was `op` at source line `line`.
JustExecuted(op, line) ==
  /\ pc > 1
  /\ Code[prog][pc - 1].op = op
  /\ Code[prog][pc - 1].line = line

\* Some instruction of source line `line` has been executed.
Executed(line) == \E k \in 1..(pc - 1) : Code[prog][k].line = line

\* The valid variables that own heap cell c.
Owners(c) ==
  {p \in AllLeaves : st[p] = "valid" /\ TypeOf(p) \in HeapTypes /\ val[p] = c}

AllValid(ps) == \A p \in ps : st[p] = "valid"

\* C2: in ownership_in_function_returns every allocated String is freed
\* exactly once: "hello" is dropped by s3 and "yours" by s1 when they go out
\* of scope at the end of the function, and s2, some_string and a_string,
\* whose ownership was moved out, drop nothing.
ReturnsDropEachStringOnce ==
  prog = "ownership_in_function_returns" =>
    /\ \A c \in DOMAIN heap : heap[c].frees <= 1
    /\ \A k \in DOMAIN dropLog : dropLog[k].var \in {<<"s1">>, <<"s3">>}
    /\ dropLog # << >> => Code[prog][pc - 1].line = 169
    /\ status = "done" =>
         /\ Len(heap) = 2
         /\ \A c \in DOMAIN heap : heap[c].frees = 1
         /\ dropLog = << [var |-> <<"s3">>, data |-> hello],
                         [var |-> <<"s1">>, data |-> yours] >>

ReturnsDropEachStringOnceWitness ==
  /\ prog = "ownership_in_function_returns"
  /\ status = "done"
  /\ Len(dropLog) = 2
  /\ st[<<"s2">>] = "dead"

\* C3: in move_data and ownership_in_function_calls every live heap string
\* has exactly one valid owner at every program point: after `let s2 = s1`
\* only s2 is valid, after takes_ownership(s) only some_string is valid, no
\* invalidated variable is read, and x stays valid after makes_copy(x).
SingleValidOwner ==
  prog \in {"move_data", "ownership_in_function_calls"} =>
    /\ \A c \in DOMAIN heap :
         Cardinality(Owners(c)) = IF heap[c].frees = 0 THEN 1 ELSE 0
    /\ badUse = {}
    /\ (prog = "move_data" /\ JustExecuted("assign", 92)) =>
         st[<<"s1">>] = "moved" /\ Owners(1) = {<<"s2">>}
    /\ (prog = "ownership_in_function_calls" /\ JustExecuted("assign", 135)) =>
         st[<<"s">>] = "moved" /\ Owners(1) = {<<"some_string">>}
    /\ (prog = "ownership_in_function_calls"
        /\ Executed(143) /\ ~Executed(148)) =>
         st[<<"x">>] = "valid"

SingleValidOwnerWitness ==
  /\ prog = "ownership_in_function_calls"
  /\ JustExecuted("read", 147)
  /\ st[<<"s">>] = "moved"
  /\ st[<<"x">>] = "valid"
  /\ heap[1].frees = 1

\* The references alive in a state are either one mutable reference or any
\* number of shared references to overlapping data.
MutableXorShared ==
  \A b \in borrows : b.kind = "mut" =>
    \A c \in borrows : Overlap(b.target, c.target) => c = b

\* A statement executed while a mutable reference is alive touches the
\* borrowed data only through that reference; executed while a shared
\* reference is alive, it does not change or mutably borrow the data.
RespectsBorrows ==
  \A b \in borrows : \A a \in acc' : Overlap(a.place, b.target) =>
    IF b.kind = "mut" THEN a.via = b.ref
    ELSE a.how \in {"read", "borrow_shared"}

RefPrograms ==
  {"shared_reference_example", "mut_reference_example", "reference_example_2"}

\* C4: in shared_reference_example, mut_reference_example and
\* reference_example_2, at any time either one mutable reference to s or any
\* number of shared references are alive, never both; between declaration
\* and last use of a mutable reference no other reference to s is declared
\* or used and s is not used, and while a shared reference is alive s is
\* not changed.
OneMutableOrManyShared ==
  /\ [](prog \in RefPrograms => MutableXorShared)
  /\ [][(prog \in RefPrograms => RespectsBorrows)]_vars

OneMutableOrManySharedWitness ==
  /\ prog = "mut_reference_example"
  /\ JustExecuted("write_ref", 223)
  /\ acc = {[place |-> <<"s">>, how |-> "write", via |-> "mut_ref_s"]}
  /\ heap[1].data = hello \o <<"s">>

StructPrograms == {"move_struct", "partial_move_copy_clone_reference"}

\* C5: in move_struct and partial_move_copy_clone_reference no variable or
\* field is read or moved while it is invalid: a fully moved struct is not
\* used until it is reassigned, after a partial move the struct is not used
\* as a whole and the moved field is not read until reassigned while the
\* unmoved fields stay usable, and partial copies and clones leave the
\* struct fully valid.
NoUseOfInvalidPlace ==
  prog \in StructPrograms =>
    /\ badUse = {}
    /\ (prog = "move_struct" /\ JustExecuted("assign", 199)) =>
         \A p \in Leaves(<<"moveable_user">>) : st[p] = "moved"
    /\ (prog = "move_struct" /\ Executed(212) /\ ~Executed(223)) =>
         /\ st[<<"moveable_user", "username">>] = "moved"
         /\ AllValid(Leaves(<<"moveable_user">>) \ {<<"moveable_user", "username">>})
    /\ (prog = "move_struct" /\ (JustExecuted("assign", 228) \/ JustExecuted("clone", 241))) =>
         AllValid(Leaves(<<"moveable_user">>))
    /\ (prog = "partial_move_copy_clone_reference" /\ Executed(162) /\ ~Executed(176)) =>
         /\ st[<<"person", "last_name">>] = "moved"
         /\ AllValid(Leaves(<<"person">>) \ {<<"person", "last_name">>})

NoUseOfInvalidPlaceWitness ==
  /\ prog = "move_struct"
  /\ JustExecuted("read", 221)
  /\ st[<<"moveable_user", "username">>] = "moved"
  /\ st[<<"moveable_user", "email">>] = "valid"
  /\ acc = {[place |-> <<"moveable_user", "email">>, how |-> "read", via |-> ""]}

\* C10: mutable_slices runs through to its last statement: r1[0] and r2[0]
\* are printed, then xs is reassigned to [1,3,4,4,32]; the lifetimes of r1
\* and r2 do not overlap and xs is only used after both have ended.
MutableSlicesRunsThrough ==
  /\ [](prog = "mutable_slices" =>
          /\ status # "panicked"
          /\ MutableXorShared
          /\ status = "done" =>
               /\ Len(out) = 2
               /\ val[<<"xs">>] = <<1, 3, 4, 4, 32>>)
  /\ [][(prog = "mutable_slices" => RespectsBorrows)]_vars

\* C1: every call of Fibonacci::next, after any number of earlier calls,
\* returns Some(value): it never returns None and never fails to return.
FibonacciNextAlwaysSome ==
  prog = "fibonacci" =>
    /\ status # "panicked"
    /\ calls > 0 => returned.some

\* The values the prints of source line `line` have shown, in order.
Printed(line) ==
  LET ps == SelectSeq(out, LAMBDA o : o.line = line)
  IN [k \in DOMAIN ps |-> ps[k].args[1]]

\* C8: control_flow terminates: 'counting_up is left through
\* `break 'counting_up` with count = 3, then the while loop ends with
\* number = 0 and the for loop ends after visiting the five array elements.
ControlFlowTerminates ==
  /\ (prog = "control_flow") ~> (status = "done")
  /\ [][(prog = "control_flow" /\ pc # 40 /\ pc' = 40)
          => (pc = 30 /\ val[count] = 3 /\ val'[count] = 3)]_vars
  /\ [](prog = "control_flow" =>
          /\ pc = 47 => val[number] = 0
          /\ status = "done" =>
               /\ val[count] = 3
               /\ val[number] = 0
               /\ Printed(50) = <<10, 20, 30, 40, 50>>)

ControlFlowTerminatesWitness ==
  /\ prog = "control_flow"
  /\ status = "done"
  /\ pc = 52
  /\ val[<<"into_iter">>] = 5

\* C9: in control_flow the plain `break` only exits the inner loop: when the
\* inner loop is left because remaining == 0, execution continues in the
\* outer loop, count is incremented by exactly 1, 'End count' is printed,
\* and the next outer iteration starts with remaining reset to 5.
PlainBreakLeavesInnerLoopOnly ==
  [][prog = "control_flow" =>
       /\ (pc = 27 /\ val[remaining] = 0) => (pc' = 35 /\ val' = val)
       /\ pc = 35 => (val'[count] = val[count] + 1 /\ pc' = 36)
       /\ pc = 36 =>
            /\ out' = Append(out, [line |-> 36, args |-> <<val[count]>>])
            /\ pc' = 22
       /\ (pc = 22 /\ out # << >> /\ out[Len(out)].line = 36) => pc' = 23
       /\ pc = 23 => (val'[remaining] = 5 /\ val'[count] = val[count])]_vars

PlainBreakLeavesInnerLoopOnlyWitness ==
  /\ prog = "control_flow"
  /\ pc = 26
  /\ val[remaining] = 5
  /\ val[count] = 1
  /\ Printed(36) = <<1>>

\* The usize read from stdin has been parsed and exceeds the length of arr.
IndexBeyondArr ==
  /\ prog = "data_types"
  /\ st[<<"index_2">>] = "valid"
  /\ val[<<"index_2">>] > Len(val[<<"arr">>])

\* C6: in data_types, for every index read from stdin that is greater than
\* the length of arr, the access arr[index] terminates the program
\* immediately instead of reading memory, and the line 'The value of the
\* element at index ...' is not printed.
OutOfBoundsIndexTerminates ==
  /\ [](IndexBeyondArr =>
          /\ Code[prog][pc].line = 99
          /\ st[<<"element">>] = "unborn"
          /\ \A k \in DOMAIN out : out[k].line # 100)
  /\ [][(IndexBeyondArr /\ status = "running") => status' = "panicked"]_vars

OutOfBoundsIndexTerminatesWitness ==
  /\ IndexBeyondArr
  /\ status = "panicked"
  /\ val[<<"index_2">>] = 6
  /\ heap[val[<<"index">>]].data = <<" ", "6", "\n">>

Unconsumed == {"mutably_borrowing_iterator", "owning_iterator"}

\* C7: iterator adaptors are lazy: map() and filter() perform no computation
\* until a consuming adaptor runs.  In mutably_borrowing_iterator and
\* owning_iterator, where the mapped iterator is never consumed, the closure
\* is invoked zero times; in iterator_map_filter the closures are invoked
\* only once collect() consumes the chain.
AdaptorsAreLazy ==
  /\ prog \in Unconsumed => \A c \in ClosureLines : invoked[c] = 0
  /\ prog = "iterator_map_filter" =>
       /\ ~Executed(170) => \A c \in ClosureLines : invoked[c] = 0
       /\ Executed(170) =>
            /\ invoked[164] = 3
            /\ invoked[167] = 3
            /\ heap[val[<<"v_refs">>]].data = <<1, 2, 3>>

AdaptorsAreLazyWitness ==
  /\ prog = "iterator_map_filter"
  /\ JustExecuted("collect", 170)
  /\ invoked[164] = 3
  /\ st[<<"v_filter_map_iter">>] = "moved"

\* C11: in data_types the slice first_char = &str_version[0..1] is the first
\* character of the string "hello, world", i.e. "h".
FirstCharIsH ==
  (prog = "data_types" /\ st[<<"first_char">>] = "valid") =>
    /\ Str(<<"first_char">>) = SubSeq(hello_world, 1, 1)
    /\ Str(<<"first_char">>) = <<"h">>

\* The slice the function of _5_generics.rs was called with, and the
\* reference it returned.
CalledWith == val[IF prog \in Sugar THEN <<"list_2">> ELSE <<"list">>]

Returned == val[IF prog \in Sugar THEN <<"ret_sugar">> ELSE <<"ret_ref">>]

\* The position of the first of the greatest elements of a non-empty l.
FirstMaximum(l) ==
  CHOOSE r \in 0..(Len(l) - 1) :
    /\ \A k \in 1..Len(l) : l[k] <= l[r + 1]
    /\ \A k \in 1..r : l[k] # l[r + 1]

\* C12: for every non-empty list over a totally ordered element type,
\* generics_in_functions returns a reference to an element of the list such
\* that no element of the list is greater than it, the first such element
\* when the maximum occurs several times; generics_in_functions_implsugar
\* and generics_in_functions_wheresugar return the same element.
LargestIsFirstMaximum ==
  /\ []((prog \in Generics /\ CalledWith # << >>) =>
          /\ status # "panicked"
          /\ status = "done" =>
               /\ Returned \in 0..(Len(CalledWith) - 1)
               /\ \A k \in 1..Len(CalledWith) :
                    ~(CalledWith[k] > CalledWith[Returned + 1])
               /\ \A k \in 1..Returned : CalledWith[k] # CalledWith[Returned + 1]
               /\ Returned = FirstMaximum(CalledWith)
               /\ prog \in Sugar => /\ val[<<"list">>] = CalledWith
                                    /\ Returned = val[<<"ret_ref">>])
  /\ (prog \in Generics /\ CalledWith # << >>) ~> status = "done"

LargestIsFirstMaximumWitness ==
  /\ prog \in Sugar
  /\ status = "done"
  /\ Len(CalledWith) = 3
  /\ CalledWith[1] < CalledWith[2]
  /\ CalledWith[2] = CalledWith[3]
  /\ Returned = 1

TraitPrograms == {"using_traits_example", "show_twice"}

username == <<"user1", "username">>

\* The call of show_twice on user1 has just returned into s.
ShowTwiceReturned ==
  /\ prog \in TraitPrograms
  /\ pc > 1
  /\ Code[prog][pc - 1].op = "assign"
  /\ Code[prog][pc - 1].dst = <<"s">>

\* The punctuation of the Debug text of a Vec<char>.
DebugPunctuation == {"[", "]", "'", ",", " "}

\* C13: for every implementor of Show, the default method show_twice() calls
\* show() exactly once and returns that string followed by the literal
\* "world", leaving self unchanged; for the User with username "hello",
\* using_traits_example prints "helloworld" and then the characters of
\* "hello" in order.
ShowTwiceShowsOnceAndAppendsWorld ==
  /\ [](prog \in TraitPrograms =>
          /\ status # "panicked"
          /\ badUse = {}
          /\ ShowTwiceReturned =>
               /\ invoked[100] = 1
               /\ st[<<"s">>] = "valid"
               /\ heap[val[<<"s">>]].data = heap[val[username]].data \o world
               /\ heap[val[<<"s">>]].frees = 0
               /\ AllValid(Leaves(<<"user1">>))
          /\ (prog = "using_traits_example" /\ status = "done") =>
               /\ Len(out) = 2
               /\ out[1] = [line |-> 112, args |-> <<hello \o world>>]
               /\ out[2] = [line |-> 114, args |-> <<DebugVec(hello)>>]
               /\ SelectSeq(out[2].args[1],
                            LAMBDA c : c \notin DebugPunctuation) = hello)
  /\ [][(/\ prog \in TraitPrograms
         /\ status = "running"
         /\ AllValid(Leaves(<<"user1">>))
         /\ Code[prog][pc].dst # <<"user1">>) =>
          /\ \A l \in Leaves(<<"user1">>) : st'[l] = "valid" /\ val'[l] = val[l]
          /\ heap'[val[username]] = heap[val[username]]]_vars
  /\ (prog \in TraitPrograms) ~> (status = "done")

ShowTwiceShowsOnceAndAppendsWorldWitness ==
  /\ prog = "show_twice"
  /\ ShowTwiceReturned
  /\ invoked[100] = 1
  /\ heap[val[username]].data = yours \o world
  /\ heap[val[<<"s">>]].data = yours \o world \o world

====
